---------------------------- MODULE Spec2Model ----------------------------
(***************************************************************************)
(* sonic-exporter: the caching collectors (hw, crm) and the redis client.  *)
(*                                                                         *)
(* Strings are TLA+ strings; Len, SubSeq and \o act on them character by   *)
(* character, so the Go string functions are computed, not assumed.        *)
(***************************************************************************)
EXTENDS Integers, Sequences, FiniteSets, TLC

(***************************************************************************)
(* Bounds of the model.                                                    *)
(***************************************************************************)
\* number of goroutines calling Collect (the registry runs collectors concurrently)
NumCallers == 2
\* wall clock at process start, in seconds after the zero time.Time
StartTime == 20
\* the clock advances in steps of Tick seconds
Tick == 5
\* the clock stops advancing at MaxTime
MaxTime == 35
\* scrape attempts counted per collector instance
MaxScrapes == 2
\* external writes to the store
MaxWrites == 1

(***************************************************************************)
(* Program constants.                                                      *)
(***************************************************************************)
\* const cacheDuration = 15 * time.Second
cacheDuration == 15

Collectors == {"hw", "crm"}
Callers == 1..NumCallers

(***************************************************************************)
(* Go's strings package, on TLA+ strings.                                  *)
(***************************************************************************)
Char(s, i) == SubSeq(s, i, i)

\* the Go slice s[a-1:b], cut at the end of s
Sub(s, a, b) == IF a > Len(s) THEN "" ELSE SubSeq(s, a, IF b > Len(s) THEN Len(s) ELSE b)

HasPrefix(s, p) == Len(s) >= Len(p) /\ SubSeq(s, 1, Len(p)) = p

HasSuffix(s, p) == Len(s) >= Len(p) /\ SubSeq(s, Len(s) - Len(p) + 1, Len(s)) = p

TrimPrefix(s, p) == IF HasPrefix(s, p) THEN SubSeq(s, Len(p) + 1, Len(s)) ELSE s

TrimSuffix(s, p) == IF HasSuffix(s, p) THEN SubSeq(s, 1, Len(s) - Len(p)) ELSE s

\* strings.Split(s, sep) for a one-character separator: always at least one part
RECURSIVE SplitFrom(_, _, _, _)
SplitFrom(s, sep, i, cur) ==
    IF i > Len(s) THEN <<cur>>
    ELSE IF Char(s, i) = sep THEN <<cur>> \o SplitFrom(s, sep, i + 1, "")
    ELSE SplitFrom(s, sep, i + 1, cur \o Char(s, i))

Split(s, sep) == SplitFrom(s, sep, 1, "")

RECURSIVE Join(_, _)
Join(parts, sep) ==
    IF Len(parts) = 0 THEN ""
    ELSE IF Len(parts) = 1 THEN parts[1]
    ELSE parts[1] \o sep \o Join(Tail(parts), sep)

Upper == "ABCDEFGHIJKLMNOPQRSTUVWXYZ"
Lower == "abcdefghijklmnopqrstuvwxyz"

LowerChar(c) ==
    IF \E k \in 1..Len(Upper) : Char(Upper, k) = c
    THEN Char(Lower, CHOOSE k \in 1..Len(Upper) : Char(Upper, k) = c)
    ELSE c

RECURSIVE ToLower(_)
ToLower(s) == IF Len(s) = 0 THEN "" ELSE LowerChar(Char(s, 1)) \o ToLower(SubSeq(s, 2, Len(s)))

Digits == "0123456789"

IsDigit(c) == \E k \in 1..Len(Digits) : Char(Digits, k) = c

DigitVal(c) == (CHOOSE k \in 1..Len(Digits) : Char(Digits, k) = c) - 1

AllDigits(s) == \A i \in 1..Len(s) : IsDigit(Char(s, i))

RECURSIVE NatOf(_)
NatOf(s) == IF Len(s) = 0 THEN 0 ELSE NatOf(SubSeq(s, 1, Len(s) - 1)) * 10 + DigitVal(Char(s, Len(s)))


(***************************************************************************)
(* parseFloat: a float64 is modelled exactly as a decimal number           *)
(* num / 10^scale with the trailing zeros of the fraction removed, so that *)
(* "12.1" and "12.10" denote the same value and "12.1" and "121" do not.   *)
(* The lexical rules are those of a signed decimal literal; the inputs     *)
(* used here are decimal literals or not numbers at all.                   *)
(***************************************************************************)
Flt(n) == [num |-> n, scale |-> 0]

RECURSIVE StripZeros(_)
StripZeros(s) ==
    IF Len(s) > 0 /\ Char(s, Len(s)) = "0" THEN StripZeros(SubSeq(s, 1, Len(s) - 1)) ELSE s

parseFloat(s) ==
    LET neg   == Len(s) > 0 /\ Char(s, 1) = "-"
        body  == IF Len(s) > 0 /\ Char(s, 1) \in {"+", "-"} THEN SubSeq(s, 2, Len(s)) ELSE s
        parts == Split(body, ".")
        whole == parts[1]
        frac  == IF Len(parts) = 2 THEN parts[2] ELSE ""
        okLex == /\ Len(parts) <= 2
                 /\ AllDigits(whole) /\ AllDigits(frac)
                 /\ Len(whole) + Len(frac) >= 1
        f     == StripZeros(frac)
        n     == NatOf(whole \o f)
    IN  IF okLex
        THEN [ok |-> TRUE, val |-> [num |-> IF neg THEN 0 - n ELSE n, scale |-> Len(f)]]
        ELSE [ok |-> FALSE, val |-> Flt(0)]

(***************************************************************************)
(* prometheus.MustNewConstMetric(desc, GaugeValue, value, labelValues...)  *)
(* with the descriptors of NewHwCollector and NewCrmCollector.             *)
(***************************************************************************)
LabelNames ==
    [ sonic_hw_psu_info                   |-> <<"slot", "serial", "model_name", "model">>,
      sonic_hw_psu_input_voltage_volts    |-> <<"slot">>,
      sonic_hw_psu_input_current_amperes  |-> <<"slot">>,
      sonic_hw_psu_output_voltage_volts   |-> <<"slot">>,
      sonic_hw_psu_output_current_amperes |-> <<"slot">>,
      sonic_hw_psu_operational_status     |-> <<"slot">>,
      sonic_hw_psu_available_status       |-> <<"slot">>,
      sonic_hw_psu_temperature_celsius    |-> <<"slot">>,
      sonic_hw_fan_rpm                    |-> <<"name", "slot">>,
      sonic_hw_fan_operational_status     |-> <<"name", "slot">>,
      sonic_hw_fan_available_status       |-> <<"name", "slot">>,
      sonic_hw_chassis_info               |-> <<"name", "psu_num", "serial", "model">>,
      sonic_hw_scrape_duration_seconds    |-> <<>>,
      sonic_hw_collector_success          |-> <<>>,
      sonic_crm_resource_available        |-> <<"resource">>,
      sonic_crm_resource_used             |-> <<"resource">>,
      sonic_crm_acl_resource_available    |-> <<"acl_target", "resource">>,
      sonic_crm_acl_resource_used         |-> <<"acl_target", "resource">>,
      sonic_crm_scrape_duration_seconds   |-> <<>>,
      sonic_crm_collector_success         |-> <<>> ]

Metric(desc, value, labels) == [desc |-> desc, value |-> value, labels |-> labels]

scrapeDuration(c) == "sonic_" \o c \o "_scrape_duration_seconds"

scrapeCollectorSuccess(c) == "sonic_" \o c \o "_collector_success"

IsSuccess(m) == m.desc \in {scrapeCollectorSuccess(c) : c \in Collectors}

IsDuration(m) == m.desc \in {scrapeDuration(c) : c \in Collectors}

(***************************************************************************)
(* The key-value store: database index -> sequence of [key, hash], in the  *)
(* order the store lists its keys.  A hash maps field names to raw strings.*)
(***************************************************************************)
NoHash == [f \in {} |-> ""]

Entry(key, hash) == [key |-> key, hash |-> hash]

\* Go: data["field"] of a missing field is ""
Get(data, f) == IF f \in DOMAIN data THEN data[f] ELSE ""

HGetAll(db, key) ==
    IF \E i \in 1..Len(db) : db[i].key = key
    THEN db[CHOOSE i \in 1..Len(db) : db[i].key = key].hash
    ELSE NoHash

\* the patterns of this program are a literal followed by one "*"
GlobMatch(pattern, key) == HasPrefix(key, TrimSuffix(pattern, "*"))

RECURSIVE KeysOf(_, _)
KeysOf(db, pattern) ==
    IF Len(db) = 0 THEN <<>>
    ELSE (IF GlobMatch(pattern, db[1].key) THEN <<db[1].key>> ELSE <<>>)
         \o KeysOf(Tail(db), pattern)

(***************************************************************************)
(* pkg/redis: Client{databases}.  A connection is [db |-> index]; the      *)
(* go-redis client dials lazily, so opening one cannot fail.               *)
(***************************************************************************)
NoDatabases == [n \in {} |-> [db |-> 0]]

NewClient == [databases |-> NoDatabases]

\* database indices counted 0, 1, 2, 3: the fault C23 excludes
RedisDbIdSequential(name) ==
    CASE name = "APPL_DB"     -> [id |-> 0, ok |-> TRUE]
      [] name = "COUNTERS_DB" -> [id |-> 1, ok |-> TRUE]
      [] name = "CONFIG_DB"   -> [id |-> 2, ok |-> TRUE]
      [] name = "STATE_DB"    -> [id |-> 3, ok |-> TRUE]
      [] OTHER                -> [id |-> 0, ok |-> FALSE]

RedisDbId(name) ==
    CASE name = "APPL_DB"     -> [id |-> 0, ok |-> TRUE]
      [] name = "COUNTERS_DB" -> [id |-> 2, ok |-> TRUE]
      [] name = "CONFIG_DB"   -> [id |-> 4, ok |-> TRUE]
      [] name = "STATE_DB"    -> [id |-> 6, ok |-> TRUE]
      [] OTHER                -> [id |-> 0, ok |-> FALSE]

connect(c, dbName) ==
    LET r == RedisDbId(dbName)
    IN  IF r.ok
        THEN [c |-> [databases |-> (dbName :> [db |-> r.id]) @@ c.databases], err |-> ""]
        ELSE [c |-> c, err |-> "database not defined"]

selectClient(c, dbName) ==
    IF RedisDbId(dbName).ok
    THEN IF dbName \in DOMAIN c.databases
         THEN [c |-> c, conn |-> c.databases[dbName], err |-> ""]
         ELSE LET r == connect(c, dbName)
              IN  IF r.err # "" THEN [c |-> r.c, conn |-> [db |-> 0], err |-> r.err]
                  ELSE [c |-> r.c, conn |-> r.c.databases[dbName], err |-> ""]
    ELSE [c |-> c, conn |-> [db |-> 0], err |-> "database not defined"]

\* fault: the store answers this call with an error
HgetAllFromDb(c, st, dbName, key, fault) ==
    LET s == selectClient(c, dbName)
    IN  IF s.err # "" THEN [c |-> s.c, data |-> NoHash, err |-> s.err]
        ELSE IF fault THEN [c |-> s.c, data |-> NoHash, err |-> "redis: hgetall failed"]
        ELSE [c |-> s.c, data |-> HGetAll(st[s.conn.db], key), err |-> ""]

KeysFromDb(c, st, dbName, pattern, fault) ==
    LET s == selectClient(c, dbName)
    IN  IF s.err # "" THEN [c |-> s.c, keys |-> <<>>, err |-> s.err]
        ELSE IF fault THEN [c |-> s.c, keys |-> <<>>, err |-> "redis: keys failed"]
        ELSE [c |-> s.c, keys |-> KeysOf(st[s.conn.db], pattern), err |-> ""]

\* a Close that returns without closing anything: the fault C9 excludes
CloseNoop(c) == [c |-> c, closed |-> {}]

\* Close: every connection of the map is closed and its entry deleted
Close(c) == [c |-> [databases |-> NoDatabases], closed |-> DOMAIN c.databases]

(***************************************************************************)
(* Results of a sub-collection: the cache after it, the client after it,   *)
(* the error ("" for nil), whether it panicked, and the store calls made.  *)
(***************************************************************************)
Res(cm, c, err, panicked, calls) ==
    [cm |-> cm, c |-> c, err |-> err, panicked |-> panicked, calls |-> calls]

\* fmt.Errorf("<text>: %w", err)
Wrap(text, e) == text \o ": " \o e

\* append the sample only if the raw value can be parsed
IfParsed(desc, raw, labels) ==
    LET r == parseFloat(raw)
    IN  IF r.ok THEN <<Metric(desc, r.val, labels)>> ELSE <<>>

IsTrue(raw) == ToLower(raw) = "true"

Status(raw) == IF IsTrue(raw) THEN Flt(1) ELSE Flt(0)

(***************************************************************************)
(* hwCollector.collectPsuInfo                                              *)
(***************************************************************************)
psuSamples(psuId, data) ==
    <<Metric("sonic_hw_psu_info", Flt(1),
             <<psuId, Get(data, "serial"), Get(data, "name"), Get(data, "model")>>),
      Metric("sonic_hw_psu_operational_status", Status(Get(data, "status")), <<psuId>>),
      Metric("sonic_hw_psu_available_status", Status(Get(data, "presence")), <<psuId>>)>>
    \o IfParsed("sonic_hw_psu_input_voltage_volts", Get(data, "input_voltage"), <<psuId>>)
    \o IfParsed("sonic_hw_psu_input_current_amperes", Get(data, "input_current"), <<psuId>>)
    \o IfParsed("sonic_hw_psu_output_voltage_volts", Get(data, "output_voltage"), <<psuId>>)
    \o IfParsed("sonic_hw_psu_output_current_amperes", Get(data, "output_current"), <<psuId>>)
    \o IfParsed("sonic_hw_psu_temperature_celsius", Get(data, "temp"), <<psuId>>)

\* fault = k > 0: the k-th store call of the sub-collection fails
RECURSIVE psuLoop(_, _, _, _, _, _)
psuLoop(cm, c, st, keys, i, fault) ==
    IF i > Len(keys) THEN Res(cm, c, "", FALSE, Len(keys) + 1)
    ELSE LET parts == Split(keys[i], " ")
         IN  IF Len(parts) < 2
             THEN Res(cm, c, "", TRUE, i)   \* strings.Split(psuKey, " ")[1]: index out of range
             ELSE LET h == HgetAllFromDb(c, st, "STATE_DB", keys[i], fault = i + 1)
                  IN  IF h.err # "" THEN Res(cm, h.c, h.err, FALSE, i + 1)
                      ELSE psuLoop(cm \o psuSamples(parts[2], h.data), h.c, st, keys, i + 1, fault)

collectPsuInfo(cm, c, st, fault) ==
    LET k == KeysFromDb(c, st, "STATE_DB", "PSU_INFO|PSU*", fault = 1)
    IN  IF k.err # "" THEN Res(cm, k.c, k.err, FALSE, 1)
        ELSE psuLoop(cm, k.c, st, k.keys, 1, fault)

(***************************************************************************)
(* hwCollector.collectFanInfo, with                                        *)
(*   fanRegex = (?i)FAN_INFO\|(PSU\d+|Fantray\d+)(\s|\-)(.+)               *)
(* matched leftmost-first at any position of the key.                      *)
(***************************************************************************)
\* the number of digits of s from position i on
RECURSIVE DigitRun(_, _)
DigitRun(s, i) == IF i <= Len(s) /\ IsDigit(Char(s, i)) THEN 1 + DigitRun(s, i + 1) ELSE 0

\* "." matches any character but a line feed
RECURSIVE DotRun(_, _)
DotRun(s, i) == IF i <= Len(s) /\ Char(s, i) # "\n" THEN 1 + DotRun(s, i + 1) ELSE 0

IsSpaceOrDash(ch) == ch \in {" ", "\t", "\n", "\f", "\r", "-"}

NoMatch == [ok |-> FALSE, slot |-> "", name |-> ""]

\* strings.EqualFold for ASCII: the (?i) of the regex
RECURSIVE FoldEq(_, _)
FoldEq(s, t) ==
    IF Len(s) # Len(t) THEN FALSE
    ELSE IF Len(s) = 0 THEN TRUE
    ELSE /\ LowerChar(Char(s, 1)) = LowerChar(Char(t, 1))
         /\ FoldEq(SubSeq(s, 2, Len(s)), SubSeq(t, 2, Len(t)))

\* the length of the word (PSU|Fantray) at position j, 0 if neither is there
fanWord(s, j) ==
    IF FoldEq(Sub(s, j, j + 2), "psu") THEN 3
    ELSE IF FoldEq(Sub(s, j, j + 6), "fantray") THEN 7 ELSE 0

\* group 1 is s[j..k-1], the separator is at k, group 3 is what follows up to a line feed
fanGroups(s, j, k, digits, rest) ==
    IF digits > 0 /\ k <= Len(s) /\ IsSpaceOrDash(Char(s, k)) /\ rest > 0
    THEN [ok |-> TRUE, slot |-> SubSeq(s, j, k - 1), name |-> SubSeq(s, k + 1, k + rest)]
    ELSE NoMatch

fanAfterWord(s, j, w) ==
    IF w = 0 THEN NoMatch
    ELSE fanGroups(s, j, j + w + DigitRun(s, j + w), DigitRun(s, j + w),
                   DotRun(s, j + w + DigitRun(s, j + w) + 1))

\* the match of the regex that starts at position i: [ok, slot, name]
fanMatchAt(s, i) ==
    IF FoldEq(Sub(s, i, i + Len("FAN_INFO|") - 1), "FAN_INFO|")
    THEN fanAfterWord(s, i + Len("FAN_INFO|"), fanWord(s, i + Len("FAN_INFO|")))
    ELSE NoMatch

\* the leftmost match: the one at the least position of starts
fanLeftmost(s, starts) ==
    IF starts = {} THEN NoMatch
    ELSE fanMatchAt(s, CHOOSE i \in starts : \A h \in starts : i <= h)

fanRegex(s) == fanLeftmost(s, {i \in 1..Len(s) : fanMatchAt(s, i).ok})

\* labels where the slot of the key wins over drawer_name: the fault C12 excludes
fanLabelsKeyFirst(m, fanKey, data) ==
    [name |-> IF m.ok THEN m.name ELSE Split(fanKey, "|")[2],
     slot |-> IF m.ok THEN m.slot
              ELSE IF "drawer_name" \in DOMAIN data /\ data["drawer_name"] # "N/A"
              THEN data["drawer_name"] ELSE "0"]

\* lines 258-277: the labels of a fan, from the match m of its key, then drawer_name
\* over the slot
fanLabelsOf(m, fanKey, data) ==
    [name |-> IF m.ok THEN m.name ELSE Split(fanKey, "|")[2],
     slot |-> IF "drawer_name" \in DOMAIN data /\ data["drawer_name"] # "N/A"
              THEN data["drawer_name"]
              ELSE IF m.ok THEN m.slot ELSE "0"]

fanLabels(fanKey, data) == fanLabelsOf(fanRegex(fanKey), fanKey, data)

fanMetrics(l, data) ==
    <<Metric("sonic_hw_fan_operational_status", Status(Get(data, "status")), <<l.name, l.slot>>),
      Metric("sonic_hw_fan_available_status", Status(Get(data, "presence")), <<l.name, l.slot>>)>>
    \o IfParsed("sonic_hw_fan_rpm", Get(data, "speed"), <<l.name, l.slot>>)

fanSamples(fanKey, data) == fanMetrics(fanLabels(fanKey, data), data)

RECURSIVE fanLoop(_, _, _, _, _, _)
fanLoop(cm, c, st, keys, i, fault) ==
    IF i > Len(keys) THEN Res(cm, c, "", FALSE, Len(keys) + 1)
    ELSE LET h == HgetAllFromDb(c, st, "STATE_DB", keys[i], fault = i + 1)
         IN  IF h.err # "" THEN Res(cm, h.c, h.err, FALSE, i + 1)
             ELSE fanLoop(cm \o fanSamples(keys[i], h.data), h.c, st, keys, i + 1, fault)

collectFanInfo(cm, c, st, fault) ==
    LET k == KeysFromDb(c, st, "STATE_DB", "FAN_INFO|*", fault = 1)
    IN  IF k.err # "" THEN Res(cm, k.c, k.err, FALSE, 1)
        ELSE fanLoop(cm, k.c, st, k.keys, 1, fault)

(***************************************************************************)
(* hwCollector.collectChassisInfo                                          *)
(***************************************************************************)
chassisSamples(chassisKey, data) ==
    <<Metric("sonic_hw_chassis_info", Flt(1),
             <<Split(chassisKey, "|")[2], Get(data, "psu_num"), Get(data, "serial"),
               Get(data, "model")>>)>>

RECURSIVE chassisLoop(_, _, _, _, _, _)
chassisLoop(cm, c, st, keys, i, fault) ==
    IF i > Len(keys) THEN Res(cm, c, "", FALSE, Len(keys) + 1)
    ELSE LET h == HgetAllFromDb(c, st, "STATE_DB", keys[i], fault = i + 1)
         IN  IF h.err # "" THEN Res(cm, h.c, h.err, FALSE, i + 1)
             ELSE chassisLoop(cm \o chassisSamples(keys[i], h.data), h.c, st, keys, i + 1, fault)

collectChassisInfo(cm, c, st, fault) ==
    LET k == KeysFromDb(c, st, "STATE_DB", "CHASSIS_INFO|*", fault = 1)
    IN  IF k.err # "" THEN Res(cm, k.c, k.err, FALSE, 1)
        ELSE chassisLoop(cm, k.c, st, k.keys, 1, fault)

(***************************************************************************)
(* crmCollector: Go ranges over a map in an unspecified order; order is    *)
(* the order of one iteration, a sequence of the map's field names.        *)
(***************************************************************************)
Perms(S) == {f \in [1..Cardinality(S) -> S] : \A i, j \in DOMAIN f : i # j => f[i] # f[j]}

crmStatSamples(availDesc, usedDesc, stat, value, labels) ==
    (IF HasSuffix(stat, "available")
     THEN <<Metric(availDesc, value,
                   labels \o <<TrimSuffix(TrimPrefix(stat, "crm_stats_"), "_available")>>)>>
     ELSE <<>>)
    \o
    (IF HasSuffix(stat, "used")
     THEN <<Metric(usedDesc, value,
                   labels \o <<TrimSuffix(TrimPrefix(stat, "crm_stats_"), "_used")>>)>>
     ELSE <<>>)

\* the loop over one hash: [cm, err]
RECURSIVE crmRange(_, _, _, _, _, _, _)
crmRange(cm, data, order, i, availDesc, usedDesc, labels) ==
    IF i > Len(order) THEN [cm |-> cm, err |-> ""]
    ELSE LET r == parseFloat(data[order[i]])
         IN  IF ~r.ok THEN [cm |-> cm, err |-> "value parse failed"]
             ELSE crmRange(cm \o crmStatSamples(availDesc, usedDesc, order[i], r.val, labels),
                           data, order, i + 1, availDesc, usedDesc, labels)

collectCrmStatsCounters(cm, crmStats, order) ==
    crmRange(cm, crmStats, order, 1,
             "sonic_crm_resource_available", "sonic_crm_resource_used", <<>>)

aclTarget(key) ==
    LET parts == Split(key, ":")
    IN  ToLower(Join(SubSeq(parts, 3, Len(parts)), "_"))

\* orders[key]: the iteration order of that key's hash
RECURSIVE aclLoop(_, _, _, _, _, _, _)
aclLoop(cm, c, st, keys, i, fault, orders) ==
    IF i > Len(keys) THEN Res(cm, c, "", FALSE, Len(keys) + 1)
    ELSE LET h == HgetAllFromDb(c, st, "COUNTERS_DB", keys[i], fault = i + 1)
         IN  IF h.err # "" THEN Res(cm, h.c, Wrap("redis read failed", h.err), FALSE, i + 1)
             ELSE LET r == crmRange(cm, h.data, orders[keys[i]], 1,
                                    "sonic_crm_acl_resource_available",
                                    "sonic_crm_acl_resource_used", <<aclTarget(keys[i])>>)
                  IN  IF r.err # "" THEN Res(r.cm, h.c, r.err, FALSE, i + 1)
                      ELSE aclLoop(r.cm, h.c, st, keys, i + 1, fault, orders)

collectCrmAclStats(cm, c, st, fault, orders) ==
    LET k == KeysFromDb(c, st, "COUNTERS_DB", "CRM:ACL_STATS:*", fault = 1)
    IN  IF k.err # "" THEN Res(cm, k.c, Wrap("redis read failed", k.err), FALSE, 1)
        ELSE aclLoop(cm, k.c, st, k.keys, 1, fault, orders)

\* crmCollector.scrapeMetrics, lines 439-447: the CRM:STATS hash and its counters
collectCrmStats(cm, c, st, fault, order) ==
    LET h == HgetAllFromDb(c, st, "COUNTERS_DB", "CRM:STATS", fault = 1)
    IN  IF h.err # "" THEN Res(cm, h.c, Wrap("redis read failed", h.err), FALSE, 1)
        ELSE LET r == collectCrmStatsCounters(cm, h.data, order)
             IN  Res(r.cm, h.c,
                     IF r.err # "" THEN Wrap("crm stats collection failed", r.err) ELSE "",
                     FALSE, 1)

(***************************************************************************)
(* Contents the externally managed store can have.                         *)
(***************************************************************************)
STATE_DB == RedisDbId("STATE_DB").id
COUNTERS_DB == RedisDbId("COUNTERS_DB").id

\* well-formed records
StoreA ==
    (STATE_DB :> <<
        Entry("PSU_INFO|PSU 1", [status |-> "true", presence |-> "true", input_voltage |-> "12.1"]),
        Entry("FAN_INFO|PSU1-Fan1", [status |-> "True", presence |-> "true", speed |-> "9000",
                                     drawer_name |-> "N/A"]),
        Entry("CHASSIS_INFO|chassis 1", [psu_num |-> "2", serial |-> "S1", model |-> "M1"]) >>)
    @@
    (COUNTERS_DB :> <<
        Entry("CRM:STATS", [crm_stats_ipv4_route_available |-> "1000",
                            crm_stats_ipv4_route_used |-> "42"]),
        Entry("CRM:ACL_STATS:INGRESS:PORT", [crm_stats_acl_group_used |-> "3",
                                             crm_stats_acl_group_available |-> "200"]) >>)

\* records with fields that are not numbers
StoreB ==
    (STATE_DB :> <<
        Entry("PSU_INFO|PSU 2", [status |-> "false", presence |-> "true", input_voltage |-> "N/A",
                                 temp |-> "41.5"]),
        Entry("FAN_INFO|fan3", [status |-> "true", speed |-> "abc", drawer_name |-> "drawer1"]) >>)
    @@
    (COUNTERS_DB :> <<
        Entry("CRM:STATS", [crm_stats_ipv4_route_available |-> "1000",
                            crm_stats_ipv4_route_used |-> "N/A"]) >>)

\* a PSU key without a blank, and an ACL hash with a field that is not a number
StoreC ==
    (STATE_DB :> <<
        Entry("PSU_INFO|PSU1", [status |-> "true", presence |-> "true", input_voltage |-> "12.1"]) >>)
    @@
    (COUNTERS_DB :> <<
        Entry("CRM:STATS", [crm_stats_ipv4_route_used |-> "7"]),
        Entry("CRM:ACL_STATS:EGRESS:LAG", [crm_stats_acl_table_used |-> "1",
                                           crm_stats_acl_table_available |-> "n/a"]) >>)

Stores == {StoreA, StoreB, StoreC}

\* the iteration orders Go may take over the hashes of a database's keys
HashOrders(db) ==
    LET K == {db[i].key : i \in 1..Len(db)}
    IN  {f \in [K -> UNION {Perms(DOMAIN HGetAll(db, k)) : k \in K}] :
            \A k \in K : f[k] \in Perms(DOMAIN HGetAll(db, k))}

(***************************************************************************)
(* State.                                                                  *)
(***************************************************************************)
VARIABLES
    now,             \* the clock, seconds
    store,           \* the store's content
    writes,          \* external writes to the store so far
    crashed,         \* the process died of an unrecovered panic
    registered,      \* the collectors registered with the registry
    cachedMetrics,   \* collector.cachedMetrics, per collector
    lastScrapeTime,  \* collector.lastScrapeTime, per collector (0: the zero time.Time)
    mu,              \* collector.mu, per collector: the caller holding it, 0 if free
    pc,              \* per caller: where its Collect call stands
    target,          \* per caller: the collector its Collect call is on
    scrapeTime,      \* per caller: scrapeMetrics' local scrapeTime
    client,          \* per caller: scrapeMetrics' local redisClient
    conns,           \* per caller: the connections its clients opened and did not close
    err,             \* per caller: the error of scrapeMetrics ("" for nil)
    calls,           \* per caller: store calls issued by its Collect call
    made,            \* per caller: store clients created by its Collect call
    behind,          \* per caller: it called Collect while a scrape was in flight
    last,            \* per collector: the Collect call that returned last (see Returned)
    lastGood,        \* per collector: cachedMetrics at the end of the last successful scrape
    goodAt,          \* per collector: when the last successful scrape ended
    attempts,        \* per collector: scrapeMetrics calls so far
    successes,       \* per collector: scrapeMetrics calls that returned nil
    arg,             \* the argument of a function applied on its own (see SpecPure)
    ret              \* and what it returned

vars == <<now, store, writes, crashed, registered, cachedMetrics, lastScrapeTime, mu, pc,
          target, scrapeTime, client, conns, err, calls, made, behind, last, lastGood,
          goodAt, attempts, successes, arg, ret>>

\* what a step of one caller leaves alone
envVars == <<now, store, writes, registered, arg, ret>>

Scraping == {"newclient", "psu", "fan", "chassis", "stats", "acl", "end"}

InCollect == {"check", "emit"} \cup Scraping

(***************************************************************************)
(* What a Collect call did, recorded as it returns: what it sent on ch     *)
(* (out), how it ended (hit: from the cache, ok / failed: after a scrape), *)
(* when it read the clock for its TTL check (at), the store calls it       *)
(* issued, the clients it created, whether it had called while a scrape    *)
(* was in flight, and how the call before it ended.                        *)
(***************************************************************************)
Returned(sent, ending, p, before) ==
    [out |-> sent, how |-> ending, at |-> IF ending = "hit" THEN now ELSE scrapeTime[p],
     calls |-> calls[p], made |-> made[p], behind |-> behind[p], prevHow |-> before.how]

NoReturn ==
    [out |-> <<>>, how |-> "none", at |-> 0, calls |-> 0, made |-> 0, behind |-> FALSE,
     prevHow |-> "none"]

\* no function is applied on its own
NoArg == [kind |-> "none"]

NoRet == [done |-> FALSE]

\* the state after construction (NewHwCollector, NewCrmCollector), but for registered
Built ==
    /\ now = StartTime
    /\ store = StoreA
    /\ writes = 0
    /\ crashed = FALSE
    /\ cachedMetrics = [c \in Collectors |-> <<>>]
    /\ lastScrapeTime = [c \in Collectors |-> 0]
    /\ mu = [c \in Collectors |-> 0]
    /\ pc = [p \in Callers |-> "idle"]
    /\ target = [p \in Callers |-> "hw"]
    /\ scrapeTime = [p \in Callers |-> 0]
    /\ client = [p \in Callers |-> NewClient]
    /\ conns = [p \in Callers |-> {}]
    /\ err = [p \in Callers |-> ""]
    /\ calls = [p \in Callers |-> 0]
    /\ made = [p \in Callers |-> 0]
    /\ behind = [p \in Callers |-> FALSE]
    /\ last = [c \in Collectors |-> NoReturn]
    /\ lastGood = [c \in Collectors |-> <<>>]
    /\ goodAt = [c \in Collectors |-> 0]
    /\ attempts = [c \in Collectors |-> 0]
    /\ successes = [c \in Collectors |-> 0]

Constructed ==
    /\ Built
    /\ arg = NoArg
    /\ ret = NoRet

\* one collector instance, of either kind, and its callers
Init ==
    /\ registered \in {{c} : c \in Collectors}
    /\ Constructed

(***************************************************************************)
(* The environment: time passes, the store is written by its owner.        *)
(***************************************************************************)
Tick_ ==
    /\ ~crashed
    /\ now + Tick <= MaxTime
    /\ now' = now + Tick
    /\ UNCHANGED <<store, writes, crashed, registered, cachedMetrics, lastScrapeTime, mu, pc,
                   target, scrapeTime, client, conns, err, calls, made, behind, last,
                   lastGood, goodAt, attempts, successes, arg, ret>>

StoreWrite(s) ==
    /\ ~crashed
    /\ writes < MaxWrites
    /\ s # store
    /\ store' = s
    /\ writes' = writes + 1
    /\ UNCHANGED <<now, crashed, registered, cachedMetrics, lastScrapeTime, mu, pc, target,
                   scrapeTime, client, conns, err, calls, made, behind, last, lastGood,
                   goodAt, attempts, successes, arg, ret>>

(***************************************************************************)
(* Collect (hwCollector.Collect and crmCollector.Collect are the same code)*)
(***************************************************************************)
\* a TTL check that compares milliseconds with seconds: the fault C2 excludes
FreshMillis(c) == now * 1000 - lastScrapeTime[c] * 1000 < cacheDuration

\* a TTL check that never finds the cache fresh: the fault C4 excludes
FreshNever(c) == lastScrapeTime[c] > now

\* time.Since(collector.lastScrapeTime) < cacheDuration
Fresh(c) == now - lastScrapeTime[c] < cacheDuration

\* the calls on c that have not reached their TTL check
Pending(c) == {q \in Callers : target[q] = c /\ pc[q] \in {"lock", "check"}}

\* Collect(ch) is entered on collector c by caller p
Enter(p, c) ==
    /\ ~crashed
    /\ pc[p] = "idle"
    /\ c \in registered
    /\ attempts[c] + Cardinality(Pending(c)) < MaxScrapes
    /\ pc' = [pc EXCEPT ![p] = "lock"]
    /\ target' = [target EXCEPT ![p] = c]
    /\ behind' = [behind EXCEPT ![p] = mu[c] # 0 /\ pc[mu[c]] \in Scraping]
    /\ UNCHANGED <<envVars, crashed, cachedMetrics, lastScrapeTime, mu, scrapeTime, client,
                   conns, err, calls, made, last, lastGood, goodAt, attempts, successes>>

\* the registry calls Collect(ch) on collector c; its callers are interchangeable,
\* the least idle one takes the call
Call(p, c) ==
    /\ \A q \in Callers : q < p => pc[q] # "idle"
    /\ Enter(p, c)

\* a lock that is granted while it is held: the fault C3 excludes
CanLockAlways(c) == mu[c] >= 0

\* collector.mu.Lock() returns
CanLock(c) == mu[c] = 0

Lock(p) ==
    /\ ~crashed
    /\ pc[p] = "lock"
    /\ CanLock(target[p])
    /\ mu' = [mu EXCEPT ![target[p]] = p]
    /\ pc' = [pc EXCEPT ![p] = "check"]
    /\ UNCHANGED <<envVars, crashed, cachedMetrics, lastScrapeTime, target, scrapeTime, client,
                   conns, err, calls, made, behind, last, lastGood, goodAt, attempts, successes>>

\* Collect returns: its deferred Unlock runs and its locals are gone
Return(p, sent, ending) ==
    LET c == target[p]
    IN  /\ last' = [last EXCEPT ![c] = Returned(sent, ending, p, last[c])]
        /\ mu' = [mu EXCEPT ![c] = 0]
        /\ pc' = [pc EXCEPT ![p] = "idle"]
        /\ err' = [err EXCEPT ![p] = ""]
        /\ calls' = [calls EXCEPT ![p] = 0]
        /\ made' = [made EXCEPT ![p] = 0]
        /\ behind' = [behind EXCEPT ![p] = FALSE]
        /\ scrapeTime' = [scrapeTime EXCEPT ![p] = 0]

\* a cache hit that appends a success sample as a scrape does: the fault C19 excludes
CacheHitAppends(p) ==
    LET c  == target[p]
        cm == Append(cachedMetrics[c], Metric(scrapeCollectorSuccess(c), Flt(1), <<>>))
    IN  /\ ~crashed
        /\ pc[p] = "check"
        /\ Fresh(c)
        /\ cachedMetrics' = [cachedMetrics EXCEPT ![c] = cm]
        /\ Return(p, cm, "hit")
        /\ UNCHANGED <<envVars, crashed, lastScrapeTime, target, client, conns,
                       lastGood, goodAt, attempts, successes>>

\* lines 103-111: the cached metrics are sent
CacheHit(p) ==
    LET c == target[p]
    IN  /\ ~crashed
        /\ pc[p] = "check"
        /\ Fresh(c)
        /\ Return(p, cachedMetrics[c], "hit")
        /\ UNCHANGED <<envVars, crashed, cachedMetrics, lastScrapeTime, target, client, conns,
                       lastGood, goodAt, attempts, successes>>

\* a scrape that sets the timestamp when it starts: the fault C22 excludes
StartScrapeStamps(p) ==
    LET c == target[p]
    IN  /\ ~crashed
        /\ pc[p] = "check"
        /\ ~Fresh(c)
        /\ scrapeTime' = [scrapeTime EXCEPT ![p] = now]
        /\ lastScrapeTime' = [lastScrapeTime EXCEPT ![c] = now]
        /\ attempts' = [attempts EXCEPT ![c] = @ + 1]
        /\ pc' = [pc EXCEPT ![p] = "newclient"]
        /\ UNCHANGED <<envVars, crashed, cachedMetrics, mu, target, client,
                       conns, err, calls, made, behind, last, lastGood, goodAt, successes>>

\* line 113, lines 127-129: scrapeMetrics is entered
StartScrape(p) ==
    LET c == target[p]
    IN  /\ ~crashed
        /\ pc[p] = "check"
        /\ ~Fresh(c)
        /\ scrapeTime' = [scrapeTime EXCEPT ![p] = now]
        /\ attempts' = [attempts EXCEPT ![c] = @ + 1]
        /\ pc' = [pc EXCEPT ![p] = "newclient"]
        /\ UNCHANGED <<envVars, crashed, cachedMetrics, lastScrapeTime, mu, target, client,
                       conns, err, calls, made, behind, last, lastGood, goodAt, successes>>

FirstSub(c) == IF c = "hw" THEN "psu" ELSE "stats"

\* a reset that keeps what the cache holds: the fault C16 excludes
ResetKeep(cm) == cm

\* line 139: collector.cachedMetrics = []prometheus.Metric{}
Reset(cm) == <<>>

\* lines 131-139: the client is created and the cache reset
NewClientOk(p) ==
    LET c == target[p]
    IN  /\ ~crashed
        /\ pc[p] = "newclient"
        /\ client' = [client EXCEPT ![p] = NewClient]
        /\ made' = [made EXCEPT ![p] = @ + 1]
        /\ cachedMetrics' = [cachedMetrics EXCEPT ![c] = Reset(cachedMetrics[c])]
        /\ pc' = [pc EXCEPT ![p] = FirstSub(c)]
        /\ UNCHANGED <<envVars, crashed, lastScrapeTime, mu, target, scrapeTime, conns, err,
                       calls, behind, last, lastGood, goodAt, attempts, successes>>

\* a failed client creation that sets the timestamp: the fault C17 excludes
NewClientFailStamped(p) ==
    /\ ~crashed
    /\ pc[p] = "newclient"
    /\ made' = [made EXCEPT ![p] = @ + 1]
    /\ err' = [err EXCEPT ![p] = Wrap("redis client initialization failed",
                                      "failed to read redis config")]
    /\ pc' = [pc EXCEPT ![p] = "emit"]
    /\ lastScrapeTime' = [lastScrapeTime EXCEPT ![target[p]] = now]
    /\ UNCHANGED <<envVars, crashed, cachedMetrics, mu, target, scrapeTime,
                   client, conns, calls, behind, last, lastGood, goodAt, attempts, successes>>

\* lines 131-134: redis.NewClient returns an error
NewClientFail(p) ==
    /\ ~crashed
    /\ pc[p] = "newclient"
    /\ made' = [made EXCEPT ![p] = @ + 1]
    /\ err' = [err EXCEPT ![p] = Wrap("redis client initialization failed",
                                      "failed to read redis config")]
    /\ pc' = [pc EXCEPT ![p] = "emit"]
    /\ UNCHANGED <<envVars, crashed, cachedMetrics, lastScrapeTime, mu, target, scrapeTime,
                   client, conns, calls, behind, last, lastGood, goodAt, attempts, successes>>

\* the connections open after the deferred redisClient.Close()
AfterClose(open, c) == (open \cup DOMAIN c.databases) \ Close(c).closed

(***************************************************************************)
(* One sub-collection of scrapeMetrics with result r: it goes on to step   *)
(* next, or returns the wrapped error (the deferred Close runs), or panics *)
(* (the deferred Close and Unlock run, and the panic, which nothing        *)
(* recovers in the registry's goroutine, ends the process).                *)
(***************************************************************************)
SubCollection(p, r, fault, text, next) ==
    LET c == target[p]
    IN  /\ fault > 0 => r.err # ""     \* the faulted store call is one the code makes
        /\ cachedMetrics' = [cachedMetrics EXCEPT ![c] = r.cm]
        /\ calls' = [calls EXCEPT ![p] = @ + r.calls]
        /\ IF r.panicked
           THEN /\ crashed' = TRUE
                /\ pc' = [pc EXCEPT ![p] = "panicked"]
                /\ mu' = [mu EXCEPT ![c] = 0]
                /\ client' = [client EXCEPT ![p] = Close(r.c).c]
                /\ conns' = [conns EXCEPT ![p] = AfterClose(@, r.c)]
                /\ err' = err
           ELSE IF r.err # ""
           THEN /\ err' = [err EXCEPT ![p] = IF text = "" THEN r.err ELSE Wrap(text, r.err)]
                /\ pc' = [pc EXCEPT ![p] = "emit"]
                /\ client' = [client EXCEPT ![p] = Close(r.c).c]
                /\ conns' = [conns EXCEPT ![p] = AfterClose(@, r.c)]
                /\ UNCHANGED <<crashed, mu>>
           ELSE /\ pc' = [pc EXCEPT ![p] = next]
                /\ client' = [client EXCEPT ![p] = r.c]
                /\ conns' = [conns EXCEPT ![p] = @ \cup DOMAIN r.c.databases]
                /\ UNCHANGED <<crashed, mu, err>>
        /\ UNCHANGED <<envVars, lastScrapeTime, target, scrapeTime, made, behind, last,
                       lastGood, goodAt, attempts, successes>>

\* the store calls a sub-collection can make: the key listing and one fetch per key
Faults(db) == 0..(Len(db) + 1)

\* lines 141-144
PsuInfo(p) ==
    /\ ~crashed
    /\ pc[p] = "psu"
    /\ \E fault \in Faults(store[STATE_DB]) :
          SubCollection(p, collectPsuInfo(cachedMetrics[target[p]], client[p], store, fault),
                        fault, "hw psu info collection failed", "fan")

\* lines 146-149
FanInfo(p) ==
    /\ ~crashed
    /\ pc[p] = "fan"
    /\ \E fault \in Faults(store[STATE_DB]) :
          SubCollection(p, collectFanInfo(cachedMetrics[target[p]], client[p], store, fault),
                        fault, "hw psu info collection failed", "chassis")

\* lines 151-154
ChassisInfo(p) ==
    /\ ~crashed
    /\ pc[p] = "chassis"
    /\ \E fault \in Faults(store[STATE_DB]) :
          SubCollection(p, collectChassisInfo(cachedMetrics[target[p]], client[p], store, fault),
                        fault, "hw chassis info collection failed", "end")

\* lines 439-447
CrmStats(p) ==
    /\ ~crashed
    /\ pc[p] = "stats"
    /\ \E fault \in 0..1 :
       \E order \in Perms(DOMAIN HGetAll(store[COUNTERS_DB], "CRM:STATS")) :
          SubCollection(p, collectCrmStats(cachedMetrics[target[p]], client[p], store, fault, order),
                        fault, "", "acl")

\* lines 449-452
CrmAclStats(p) ==
    /\ ~crashed
    /\ pc[p] = "acl"
    /\ \E fault \in Faults(store[COUNTERS_DB]) :
       \E orders \in HashOrders(store[COUNTERS_DB]) :
          SubCollection(p, collectCrmAclStats(cachedMetrics[target[p]], client[p], store, fault, orders),
                        fault, "crm acl stats collection failed", "end")

\* a timestamp shared by the collectors: the fault C11 excludes
StampedAll(times, c) == [d \in DOMAIN times |-> now]

\* a successful scrape that leaves the timestamp alone: the fault C5 excludes
StampedNever(times, c) == [times EXCEPT ![c] = @]

\* line 158: collector.lastScrapeTime = time.Now()
Stamped(times, c) == [times EXCEPT ![c] = now]

\* lines 156-162: the timestamp, the duration sample, the deferred Close
EndScrape(p) ==
    LET c  == target[p]
        cm == Append(cachedMetrics[c], Metric(scrapeDuration(c), Flt(now - scrapeTime[p]), <<>>))
    IN  /\ ~crashed
        /\ pc[p] = "end"
        /\ lastScrapeTime' = Stamped(lastScrapeTime, c)
        /\ goodAt' = [goodAt EXCEPT ![c] = now]
        /\ cachedMetrics' = [cachedMetrics EXCEPT ![c] = cm]
        /\ client' = [client EXCEPT ![p] = Close(client[p]).c]
        /\ conns' = [conns EXCEPT ![p] = AfterClose(@, client[p])]
        /\ lastGood' = [lastGood EXCEPT ![c] = cm]
        /\ successes' = [successes EXCEPT ![c] = @ + 1]
        /\ pc' = [pc EXCEPT ![p] = "emit"]
        /\ UNCHANGED <<envVars, crashed, mu, target, scrapeTime, err, calls, made, behind,
                       last, attempts>>

\* a Collect that scrapes again when its scrape failed: the fault C18 excludes
EmitRetry(p) ==
    LET c  == target[p]
        cm == Append(cachedMetrics[c],
                     Metric(scrapeCollectorSuccess(c), Flt(IF err[p] = "" THEN 1 ELSE 0), <<>>))
    IN  /\ ~crashed
        /\ pc[p] = "emit"
        /\ IF err[p] # "" /\ attempts[c] < MaxScrapes
           THEN /\ pc' = [pc EXCEPT ![p] = "newclient"]
                /\ err' = [err EXCEPT ![p] = ""]
                /\ attempts' = [attempts EXCEPT ![c] = @ + 1]
                /\ UNCHANGED <<cachedMetrics, last, mu, calls, made, behind, scrapeTime>>
           ELSE /\ cachedMetrics' = [cachedMetrics EXCEPT ![c] = cm]
                /\ Return(p, cm, IF err[p] = "" THEN "ok" ELSE "failed")
                /\ UNCHANGED attempts
        /\ UNCHANGED <<envVars, crashed, lastScrapeTime, target, client, conns, lastGood,
                       goodAt, successes>>

\* lines 114-124: the success sample is appended to the cache and the cache is sent
Emit(p) ==
    LET c  == target[p]
        cm == Append(cachedMetrics[c],
                     Metric(scrapeCollectorSuccess(c), Flt(IF err[p] = "" THEN 1 ELSE 0), <<>>))
    IN  /\ ~crashed
        /\ pc[p] = "emit"
        /\ cachedMetrics' = [cachedMetrics EXCEPT ![c] = cm]
        /\ Return(p, cm, IF err[p] = "" THEN "ok" ELSE "failed")
        /\ UNCHANGED <<envVars, crashed, lastScrapeTime, target, client, conns, lastGood,
                       goodAt, attempts, successes>>

Next ==
    \/ Tick_
    \/ \E s \in Stores : StoreWrite(s)
    \/ \E p \in Callers, c \in Collectors : Call(p, c)
    \/ \E p \in Callers : Lock(p)
    \/ \E p \in Callers : CacheHit(p)
    \/ \E p \in Callers : StartScrape(p)
    \/ \E p \in Callers : NewClientOk(p)
    \/ \E p \in Callers : NewClientFail(p)
    \/ \E p \in Callers : PsuInfo(p)
    \/ \E p \in Callers : FanInfo(p)
    \/ \E p \in Callers : ChassisInfo(p)
    \/ \E p \in Callers : CrmStats(p)
    \/ \E p \in Callers : CrmAclStats(p)
    \/ \E p \in Callers : EndScrape(p)
    \/ \E p \in Callers : Emit(p)

Spec == Init /\ [][Next]_vars

(***************************************************************************)
(* The same program under fair scheduling.  A goroutine that is inside     *)
(* Collect with the lock taken comes to its next statement: every store    *)
(* call returns, with a value or an error, and the registry receives what  *)
(* is sent on ch.  Every step of Collect past the lock changes the         *)
(* position of its caller and of nobody else, so the condition is on the   *)
(* position moving.  A goroutine blocked in mu.Lock() is granted the lock  *)
(* if it is released again and again (sync.Mutex hands the lock to a       *)
(* starving waiter).  The registry need not call, the clock need not       *)
(* advance, the store need not be written; a process that has panicked     *)
(* runs no more.                                                           *)
(***************************************************************************)
PcValues == {"idle", "lock", "panicked"} \cup InCollect

Running(p) == ~crashed /\ pc[p] \in InCollect

Moves(p) == Running(p) /\ \E v \in PcValues \ {pc[p]} : pc' = [pc EXCEPT ![p] = v]

Fairness == \A p \in Callers : WF_pc(Moves(p)) /\ SF_vars(Lock(p))

SpecLive == Init /\ [][Next]_vars /\ Fairness

(***************************************************************************)
(* Both collectors registered (main: MustRegister(hwCollector),            *)
(* MustRegister(crmCollector)).  The registry gathers from each collector  *)
(* in a goroutine of its own, so that the two Collect calls overlap.  The  *)
(* clock and the store stand still: what a step of one collector does to   *)
(* the other does not depend on them.                                      *)
(***************************************************************************)
Worker(c) == IF c = "hw" THEN 1 ELSE 2

InitDomains ==
    /\ registered = Collectors
    /\ Constructed

Gather(c) ==
    /\ Worker(c) \in Callers
    /\ Enter(Worker(c), c)

NextDomains ==
    \/ \E c \in Collectors : Gather(c)
    \/ \E p \in Callers : Lock(p)
    \/ \E p \in Callers : CacheHit(p)
    \/ \E p \in Callers : StartScrape(p)
    \/ \E p \in Callers : NewClientOk(p)
    \/ \E p \in Callers : NewClientFail(p)
    \/ \E p \in Callers : PsuInfo(p)
    \/ \E p \in Callers : FanInfo(p)
    \/ \E p \in Callers : ChassisInfo(p)
    \/ \E p \in Callers : CrmStats(p)
    \/ \E p \in Callers : CrmAclStats(p)
    \/ \E p \in Callers : EndScrape(p)
    \/ \E p \in Callers : Emit(p)

SpecDomains == InitDomains /\ [][NextDomains]_vars

(***************************************************************************)
(* The sub-collections applied on their own to a store of one record: the  *)
(* argument is drawn at the start, the step applies the function with a    *)
(* fresh client, an empty cache and no store fault.                        *)
(***************************************************************************)
OneRecord(db, key, data) ==
    [d \in {STATE_DB, COUNTERS_DB} |-> IF d = db THEN <<Entry(key, data)>> ELSE <<>>]

Done(r) == [done |-> TRUE, res |-> r]

FanKeys ==
    {"FAN_INFO|PSU1-Fan1", "FAN_INFO|Fantray12 FAN 1", "FAN_INFO|fantray2-f", "FAN_INFO|psu7 x",
     "FAN_INFO|fan3", "FAN_INFO|PSU-Fan1", "FAN_INFO|PSU1_Fan1", "FAN_INFO|PSU1-",
     "FAN_INFO|fan4|PSU1", "FAN_INFO|FAN_INFO|PSU22-b"}

\* drawer_name absent, the placeholder, and values that are not the placeholder
FanData ==
    {[status |-> "true", speed |-> "9000"]}
    \cup {[status |-> "true", speed |-> "9000", drawer_name |-> d] : d \in {"N/A", "drawer1", "", "n/a"}}

FanArgs == {[kind |-> "fan", key |-> k, data |-> d] : k \in FanKeys, d \in FanData}

ApplyFanInfo ==
    /\ arg.kind = "fan"
    /\ ~ret.done
    /\ ret' = Done(collectFanInfo(<<>>, NewClient, OneRecord(STATE_DB, arg.key, arg.data), 0))
    /\ UNCHANGED <<now, store, writes, crashed, registered, cachedMetrics, lastScrapeTime, mu, pc,
                   target, scrapeTime, client, conns, err, calls, made, behind, last, lastGood,
                   goodAt, attempts, successes, arg>>

PsuKeys == {"PSU_INFO|PSU1", "PSU_INFO|PSU 1", "PSU_INFO|PSU PSU1", "PSU_INFO|PSU 2"}

PsuData ==
    {[status |-> "true", presence |-> "true", input_voltage |-> "12.1"],
     [status |-> "true", presence |-> "true", input_voltage |-> "12.1", output_voltage |-> "12.0"],
     [status |-> "TRUE", presence |-> "false", input_voltage |-> "N/A", temp |-> "41.5"],
     [status |-> "ok", input_current |-> "-0.5", output_current |-> "1e"]}

PsuArgs == {[kind |-> "psu", key |-> k, data |-> d] : k \in PsuKeys, d \in PsuData}

ApplyPsuInfo ==
    /\ arg.kind = "psu"
    /\ ~ret.done
    /\ ret' = Done(collectPsuInfo(<<>>, NewClient, OneRecord(STATE_DB, arg.key, arg.data), 0))
    /\ UNCHANGED <<now, store, writes, crashed, registered, cachedMetrics, lastScrapeTime, mu, pc,
                   target, scrapeTime, client, conns, err, calls, made, behind, last, lastGood,
                   goodAt, attempts, successes, arg>>

CrmData ==
    {[crm_stats_ipv4_route_available |-> "1000", crm_stats_ipv4_route_used |-> "42"],
     [crm_stats_ipv6_route_used |-> "7", crm_stats_polling_interval |-> "300"],
     [crm_stats_ipv4_route_available |-> "1000", crm_stats_ipv4_route_used |-> "N/A"],
     [crm_stats_fdb_entry_available |-> "12.5", crm_stats_fdb_entry_used |-> "0",
      crm_stats_state |-> "1"]}

\* a hash and the order in which Go ranges over it
CrmArgs == {[kind |-> "crm", key |-> "CRM:STATS", data |-> d, order |-> o] :
               d \in CrmData, o \in UNION {Perms(DOMAIN e) : e \in CrmData}}

ApplyCrmStats ==
    /\ arg.kind = "crm"
    /\ ~ret.done
    /\ ret' = Done(collectCrmStats(<<>>, NewClient, OneRecord(COUNTERS_DB, arg.key, arg.data),
                                   0, arg.order))
    /\ UNCHANGED <<now, store, writes, crashed, registered, cachedMetrics, lastScrapeTime, mu, pc,
                   target, scrapeTime, client, conns, err, calls, made, behind, last, lastGood,
                   goodAt, attempts, successes, arg>>

InitPure ==
    /\ registered = {}
    /\ Built
    /\ arg \in FanArgs \cup PsuArgs \cup {a \in CrmArgs : a.order \in Perms(DOMAIN a.data)}
    /\ ret = NoRet

NextPure ==
    \/ ApplyFanInfo
    \/ ApplyPsuInfo
    \/ ApplyCrmStats

SpecPure == InitPure /\ [][NextPure]_vars

(***************************************************************************)
(* The store client used on its own: one client, created by NewClient, on  *)
(* which KeysFromDb, HgetAllFromDb and Close are called in any order with   *)
(* any database name, known or not.  client[1] is the client, conns[1] the  *)
(* connections it has open, calls[1] the calls made on it, ret the last    *)
(* call with the client before and after it.                               *)
(***************************************************************************)
MaxOps == 3

\* the server has sixteen databases; those the store does not describe are empty
WholeStore(st) == [d \in 0..15 |-> IF d \in DOMAIN st THEN st[d] ELSE <<>>]

DbNames == {"APPL_DB", "COUNTERS_DB", "CONFIG_DB", "STATE_DB", "ASIC_DB", "state_db", ""}

Patterns == {"PSU_INFO|*", "CRM:*"}

HashKeys == {"CRM:STATS", "PSU_INFO|PSU 1"}

Used(op, name, fault, before, r, keys, data) ==
    /\ client' = [client EXCEPT ![1] = r.c]
    /\ conns' = [conns EXCEPT ![1] = DOMAIN r.c.databases]
    /\ calls' = [calls EXCEPT ![1] = @ + 1]
    /\ ret' = Done([op |-> op, name |-> name, fault |-> fault, before |-> before,
                    after |-> r.c, err |-> r.err, keys |-> keys, data |-> data,
                    closed |-> {}])
    /\ UNCHANGED <<now, store, writes, crashed, registered, cachedMetrics, lastScrapeTime, mu,
                   pc, target, scrapeTime, err, made, behind, last, lastGood, goodAt,
                   attempts, successes, arg>>

ClientKeys ==
    /\ calls[1] < MaxOps
    /\ \E name \in DbNames, pattern \in Patterns, fault \in BOOLEAN :
          \E r \in {KeysFromDb(client[1], WholeStore(store), name, pattern, fault)} :
             Used([call |-> "KeysFromDb", arg |-> pattern], name, fault, client[1], r,
                  r.keys, NoHash)

ClientHgetAll ==
    /\ calls[1] < MaxOps
    /\ \E name \in DbNames, key \in HashKeys, fault \in BOOLEAN :
          \E r \in {HgetAllFromDb(client[1], WholeStore(store), name, key, fault)} :
             Used([call |-> "HgetAllFromDb", arg |-> key], name, fault, client[1], r,
                  <<>>, r.data)

ClientClose ==
    /\ calls[1] < MaxOps
    /\ client' = [client EXCEPT ![1] = Close(client[1]).c]
    /\ conns' = [conns EXCEPT ![1] = AfterClose(@, client[1])]
    /\ calls' = [calls EXCEPT ![1] = @ + 1]
    /\ ret' = Done([op |-> [call |-> "Close", arg |-> ""], name |-> "", fault |-> FALSE,
                    before |-> client[1], after |-> Close(client[1]).c, err |-> "",
                    keys |-> <<>>, data |-> NoHash, closed |-> Close(client[1]).closed])
    /\ UNCHANGED <<now, store, writes, crashed, registered, cachedMetrics, lastScrapeTime, mu,
                   pc, target, scrapeTime, err, made, behind, last, lastGood, goodAt,
                   attempts, successes, arg>>

InitClient ==
    /\ registered = {}
    /\ Constructed

NextClient ==
    \/ ClientKeys
    \/ ClientHgetAll
    \/ ClientClose

SpecClient == InitClient /\ [][NextClient]_vars

(***************************************************************************)
(* Vocabulary of the properties                                            *)
(***************************************************************************)
Last(s) == s[Len(s)]

IsPrefix(s, t) == Len(s) <= Len(t) /\ SubSeq(t, 1, Len(s)) = s

NotSuccess(m) == ~IsSuccess(m)

\* a sequence without its success indicators
StripSuccess(s) == SelectSeq(s, NotSuccess)

CeilDiv(a, b) == (a + b - 1) \div b

success0(c) == Metric(scrapeCollectorSuccess(c), Flt(0), <<>>)

\* no Collect call holds the lock of c: the last call on c has returned
Quiet(c) == mu[c] = 0

\* a Collect call has returned on c
HasReturned(c) == last[c].how # "none"

\* caller p makes its TTL check in this step
Checks(p) == pc[p] = "check" /\ pc'[p] # "check"

\* caller p answers from the cache in this step: the sequence the call before it
\* returned, no client, no store call, no scrape attempt
AnswersFromCache(p) ==
    /\ pc'[p] = "idle"
    /\ last'[target[p]].how = "hit"
    /\ last'[target[p]].out = last[target[p]].out
    /\ last'[target[p]].calls = 0
    /\ last'[target[p]].made = 0
    /\ attempts' = attempts

(***************************************************************************)
(* C1  Degrade-not-discard                                                 *)
(***************************************************************************)
\* C1: once a scrape of c has succeeded, a Collect call whose scrape fails returns
\* the samples of the last successful scrape followed by a success indicator of 0.
C1_DegradeNotDiscard ==
    \A c \in Collectors :
        (Quiet(c) /\ last[c].how = "failed" /\ successes[c] >= 1)
        => /\ IsPrefix(lastGood[c], last[c].out)
           /\ Last(last[c].out) = success0(c)

(***************************************************************************)
(* C2  Cache freshness                                                     *)
(***************************************************************************)
\* C2 as stated: a Collect call that makes its TTL check less than cacheDuration
\* after the call before it made its own answers from the cache, however the call
\* before it ended.
C2_FreshnessAnyOutcome ==
    [][\A p \in Callers :
          (Checks(p) /\ HasReturned(target[p]) /\ now - last[target[p]].at < cacheDuration)
          => AnswersFromCache(p)]_vars

\* C2: a Collect call that makes its TTL check less than cacheDuration after the
\* end of the last successful scrape returns the sequence the call before it
\* returned, creates no client, makes no store call and starts no scrape.
C2_CacheFreshness ==
    [][\A p \in Callers :
          (Checks(p) /\ successes[target[p]] >= 1 /\ now - goodAt[target[p]] < cacheDuration)
          => AnswersFromCache(p)]_vars

\* a call has answered from the cache what a scrape or a cache hit before it returned
C2_Witness ==
    \E c \in Collectors :
        /\ last[c].how = "hit"
        /\ last[c].prevHow \in {"ok", "hit"}
        /\ Len(last[c].out) > 1
        /\ last[c].calls = 0

(***************************************************************************)
(* C3  Scrape mutual exclusion                                             *)
(***************************************************************************)
\* C3: of the Collect calls on one collector at most one is between its Lock and
\* its return (TTL check, scrapeMetrics, sending), and it is the holder of mu.
C3_MutualExclusion ==
    \A p, q \in Callers :
        (pc[p] \in InCollect /\ pc[q] \in InCollect /\ target[p] = target[q])
        => (p = q /\ mu[target[p]] = p)

\* one call is inside scrapeMetrics while another waits for the lock of the same collector
C3_Witness ==
    \E p, q \in Callers :
        /\ p # q
        /\ target[p] = target[q]
        /\ pc[p] \in Scraping \ {"newclient"}
        /\ pc[q] = "lock"
        /\ mu[target[p]] = p

(***************************************************************************)
(* C4  Thundering-herd protection                                          *)
(***************************************************************************)
\* C4 as stated: a call that arrived while a scrape was in flight answers from the
\* cache and starts no scrape of its own, whatever the outcome of that scrape.
C4_HerdAnyOutcome ==
    \A c \in Collectors :
        last[c].behind => (last[c].how = "hit" /\ last[c].calls = 0 /\ last[c].made = 0)

\* C4: a call that arrived while a scrape was in flight, at its TTL check: if the
\* call before it ended well and the last successful scrape ended less than
\* cacheDuration ago, it answers from the cache; if the scrape of the call before
\* it failed, it starts a scrape of its own.
C4_ThunderingHerd ==
    [][\A p \in Callers :
          (Checks(p) /\ behind[p])
          => /\ (last[target[p]].how \in {"ok", "hit"}
                 /\ now - goodAt[target[p]] < cacheDuration)
                => AnswersFromCache(p)
             /\ last[target[p]].how = "failed"
                => (pc'[p] = "newclient"
                    /\ attempts'[target[p]] = attempts[target[p]] + 1)]_vars

\* a call that waited for a scrape has answered with what that scrape's call returned
C4_Witness ==
    \E c \in Collectors :
        /\ last[c].behind
        /\ last[c].how = "hit"
        /\ last[c].prevHow = "ok"
        /\ Len(last[c].out) > 1

(***************************************************************************)
(* C5  Scrape-count bound                                                  *)
(***************************************************************************)
\* C5 as stated: the scrape attempts made since the start are at most
\* ceil(elapsed / TTL) + 1.
C5_AttemptBound ==
    \A c \in Collectors : attempts[c] <= CeilDiv(now - StartTime, cacheDuration) + 1

\* C5: the scrapes that succeeded since the start are at most ceil(elapsed / TTL) + 1.
C5_ScrapeCountBound ==
    \A c \in Collectors : successes[c] <= CeilDiv(now - StartTime, cacheDuration) + 1

\* a second scrape has succeeded, one TTL after the first
C5_Witness ==
    \E c \in Collectors :
        /\ successes[c] = 2
        /\ successes[c] = CeilDiv(now - StartTime, cacheDuration) + 1

(***************************************************************************)
(* C6  Collect never fails                                                 *)
(***************************************************************************)
\* C6: no Collect call panics, so that the process is never ended by a scrape.
C6_CollectNeverFails ==
    /\ ~crashed
    /\ \A p \in Callers : pc[p] # "panicked"

(***************************************************************************)
(* C7  No partial visibility                                               *)
(***************************************************************************)
\* C7: what a Collect call returned and what it left in the cache is, apart from the
\* success indicators, empty or the complete sample set of the last scrape that ran
\* to its end.
C7_NoPartialVisibility ==
    \A c \in Collectors :
        (Quiet(c) /\ HasReturned(c))
        => /\ StripSuccess(last[c].out) \in {<<>>, lastGood[c]}
           /\ StripSuccess(cachedMetrics[c]) \in {<<>>, lastGood[c]}

(***************************************************************************)
(* C8  Coercion isolation                                                  *)
(***************************************************************************)
\* C8: a value that fails float parsing never fails the scrape: no scrapeMetrics
\* call ends with a value-parse error.
C8_CoercionIsolation ==
    \A p \in Callers :
        pc[p] = "emit" => ~HasSuffix(err[p], "value parse failed")

(***************************************************************************)
(* C9  Scoped store connection                                             *)
(***************************************************************************)
\* C9: a caller outside the sub-collections of a scrape holds no open connection
\* and no client with a connection in it; a scrape starts its sub-collections with
\* a client of its own creation that has no connection yet; every call that scraped
\* created exactly one client and every call answered from the cache none.
C9_ScopedConnection ==
    /\ \A p \in Callers :
          /\ pc[p] \notin Scraping \ {"newclient"}
             => (conns[p] = {} /\ client[p] = NewClient)
          /\ pc[p] \in {"psu", "stats"}
             => (conns[p] = {} /\ client[p] = NewClient)
          /\ pc[p] \in (Scraping \ {"newclient"}) \cup {"emit"} => made[p] = 1
    /\ \A c \in Collectors :
          /\ last[c].how \in {"ok", "failed"} => last[c].made = 1
          /\ last[c].how = "hit" => last[c].made = 0

\* a scrape that had opened a connection failed at a later store call and holds none
C9_Witness ==
    \E p \in Callers :
        /\ pc[p] = "emit"
        /\ err[p] # ""
        /\ calls[p] >= 2
        /\ conns[p] = {}

(***************************************************************************)
(* C10  Scenario B                                                         *)
(***************************************************************************)
\* C10: while no scrape of c has succeeded, a Collect call whose scrape fails at the
\* store connection (the client is not created, or hw's first store call fails)
\* returns exactly one sample, the success indicator 0.
C10_ScenarioB ==
    \A c \in Collectors :
        (/\ Quiet(c)
         /\ last[c].how = "failed"
         /\ successes[c] = 0
         /\ (last[c].calls = 0 \/ (c = "hw" /\ last[c].calls = 1)))
        => last[c].out = <<success0(c)>>

(***************************************************************************)
(* C11  Domain independence                                                *)
(***************************************************************************)
\* C11: a step of a Collect call on one collector leaves the cache, the timestamp
\* and the lock of the other collector, and the client and the open connections
\* of every other caller, unchanged.
C11_DomainIndependence ==
    [][\A p \in Callers :
          pc'[p] # pc[p]
          => /\ \A d \in Collectors \ {target'[p]} :
                   /\ cachedMetrics'[d] = cachedMetrics[d]
                   /\ lastScrapeTime'[d] = lastScrapeTime[d]
                   /\ mu'[d] = mu[d]
             /\ \A q \in Callers \ {p} :
                   /\ client'[q] = client[q]
                   /\ conns'[q] = conns[q]]_vars

\* both collectors are inside a scrape, each with a connection open
C11_Witness ==
    \E p, q \in Callers :
        /\ target[p] = "hw" /\ target[q] = "crm"
        /\ pc[p] \in {"fan", "chassis", "end"}
        /\ pc[q] \in {"acl", "end"}
        /\ mu["hw"] = p /\ mu["crm"] = q
        /\ conns[p] # {} /\ conns[q] # {}

(***************************************************************************)
(* C12  Fan label precedence                                               *)
(***************************************************************************)
\* what the fan samples of a result carry as labels: <<name, slot>>
FanLabelsOf(r) == {r.cm[i].labels : i \in 1..Len(r.cm)}

\* the keys of FanKeys the regex matches, with group 1 and group 3
FanMatches ==
    [k \in {"FAN_INFO|PSU1-Fan1", "FAN_INFO|Fantray12 FAN 1", "FAN_INFO|fantray2-f",
             "FAN_INFO|psu7 x", "FAN_INFO|FAN_INFO|PSU22-b"} |->
        CASE k = "FAN_INFO|PSU1-Fan1"        -> <<"PSU1", "Fan1">>
          [] k = "FAN_INFO|Fantray12 FAN 1"  -> <<"Fantray12", "FAN 1">>
          [] k = "FAN_INFO|fantray2-f"       -> <<"fantray2", "f">>
          [] k = "FAN_INFO|psu7 x"           -> <<"psu7", "x">>
          [] k = "FAN_INFO|FAN_INFO|PSU22-b" -> <<"PSU22", "b">>]

\* the slot and the name the key alone gives
FanDerived(key) ==
    IF key \in DOMAIN FanMatches
    THEN [slot |-> FanMatches[key][1], name |-> FanMatches[key][2]]
    ELSE [slot |-> "0", name |-> Split(key, "|")[2]]

\* C12: every sample of a fan record carries the name the key gives (group 3 of the
\* regex if it matches, else the segment after the first "|") and as slot the
\* drawer_name field if it is present and not "N/A", else the slot the key gives
\* (group 1 if the regex matches, else "0").
C12_FanLabelPrecedence ==
    (arg.kind = "fan" /\ ret.done)
    => /\ ret.res.err = "" /\ ~ret.res.panicked
       /\ FanLabelsOf(ret.res) =
             {<<FanDerived(arg.key).name,
                IF "drawer_name" \in DOMAIN arg.data /\ arg.data["drawer_name"] # "N/A"
                THEN arg.data["drawer_name"]
                ELSE FanDerived(arg.key).slot>>}

\* the record of the spec's example, with the placeholder as drawer_name
C12_Witness ==
    /\ arg.kind = "fan" /\ ret.done
    /\ arg.key = "FAN_INFO|PSU1-Fan1"
    /\ "drawer_name" \in DOMAIN arg.data /\ arg.data["drawer_name"] = "N/A"
    /\ FanLabelsOf(ret.res) = {<<"Fan1", "PSU1">>}

(***************************************************************************)
(* C13  Scenario A                                                         *)
(***************************************************************************)
ScenarioA == [status |-> "true", presence |-> "true", input_voltage |-> "12.1"]

\* the keys of the scan pattern PSU_INFO|PSU* that name the supply PSU1
KeysOfPSU1 == {"PSU_INFO|PSU1", "PSU_INFO|PSU 1"}

\* the samples of a sequence other than the info samples
Readings(cm) == {cm[i] : i \in {j \in 1..Len(cm) : cm[j].desc # "sonic_hw_psu_info"}}

\* C13: the record of scenario A at a key of PSU1 yields the two status samples
\* with value 1 and the input voltage 12.1, each with slot PSU1, and no sample of
\* another numeric field.
C13_ScenarioA ==
    (arg.kind = "psu" /\ ret.done /\ arg.key \in KeysOfPSU1 /\ arg.data = ScenarioA)
    => /\ ~ret.res.panicked
       /\ ret.res.err = ""
       /\ Readings(ret.res.cm) =
             {Metric("sonic_hw_psu_operational_status", Flt(1), <<"PSU1">>),
              Metric("sonic_hw_psu_available_status", Flt(1), <<"PSU1">>),
              Metric("sonic_hw_psu_input_voltage_volts", [num |-> 121, scale |-> 1], <<"PSU1">>)}

(***************************************************************************)
(* C14  Scenario C, generalized                                            *)
(***************************************************************************)
\* the resource <r> of a field crm_stats_<r><suffix>
ResourceOf(field, suffix) == TrimSuffix(TrimPrefix(field, "crm_stats_"), suffix)

\* the samples the fields of a hash call for: one per field with a parseable value
\* and the suffix _available or _used
CrmExpected(data) ==
    {Metric("sonic_crm_resource_available", parseFloat(data[f]).val,
            <<ResourceOf(f, "_available")>>) :
        f \in {g \in DOMAIN data : HasSuffix(g, "_available") /\ parseFloat(data[g]).ok}}
    \cup
    {Metric("sonic_crm_resource_used", parseFloat(data[f]).val, <<ResourceOf(f, "_used")>>) :
        f \in {g \in DOMAIN data : HasSuffix(g, "_used") /\ parseFloat(data[g]).ok}}

\* C14: the samples of a CRM:STATS hash are exactly one resource_available sample
\* for every field crm_stats_<r>_available with a parseable value, one
\* resource_used sample for every field crm_stats_<r>_used with a parseable value,
\* and none for any other field.
C14_ScenarioC ==
    (arg.kind = "crm" /\ ret.done)
    => /\ {ret.res.cm[i] : i \in 1..Len(ret.res.cm)} = CrmExpected(arg.data)
       /\ Len(ret.res.cm) = Cardinality(CrmExpected(arg.data))

(***************************************************************************)
(* C15  Single success indicator                                           *)
(***************************************************************************)
\* the number of success indicators of a sequence
SuccessCount(cm) == Len(SelectSeq(cm, IsSuccess))

\* C15: every sequence a Collect call returned holds exactly one success indicator,
\* as its last sample, and the cache the call left holds no more than one.
C15_SingleSuccessIndicator ==
    \A c \in Collectors :
        (Quiet(c) /\ HasReturned(c))
        => /\ SuccessCount(last[c].out) = 1
           /\ IsSuccess(Last(last[c].out))
           /\ SuccessCount(cachedMetrics[c]) <= 1

(***************************************************************************)
(* C16  Wholesale replacement on success                                   *)
(***************************************************************************)
success1(c) == Metric(scrapeCollectorSuccess(c), Flt(1), <<>>)

\* a sequence without its last two samples
Body(cm) == SubSeq(cm, 1, Len(cm) - 2)

NoDuplicates(cm) == \A i, j \in 1..Len(cm) : cm[i] = cm[j] => i = j

SetOf(cm) == {cm[i] : i \in 1..Len(cm)}

\* the samples one scrape of collector c assembles from store st without a fault,
\* as a set (crm: in one of the orders Go may take)
Assembled(c, st) ==
    IF c = "hw"
    THEN SetOf(collectChassisInfo(
                  collectFanInfo(collectPsuInfo(<<>>, NewClient, st, 0).cm, NewClient, st, 0).cm,
                  NewClient, st, 0).cm)
    ELSE LET order  == CHOOSE o \in Perms(DOMAIN HGetAll(st[COUNTERS_DB], "CRM:STATS")) : TRUE
             orders == CHOOSE o \in HashOrders(st[COUNTERS_DB]) : TRUE
         IN  SetOf(collectCrmAclStats(collectCrmStats(<<>>, NewClient, st, 0, order).cm,
                                      NewClient, st, 0, orders).cm)

\* C16: while the process runs, after a Collect call whose scrape succeeded the
\* cache is the sequence the call returned: samples of sub-collections, none twice
\* and, while the store has not been written, exactly those of one scrape of the
\* store; then one duration sample; then success=1; and lastScrapeTime lies between
\* the start of that scrape and now, at the time the scrape ended.
C16_WholesaleReplacement ==
    \A c \in Collectors :
        (~crashed /\ Quiet(c) /\ last[c].how = "ok")
        => /\ cachedMetrics[c] = last[c].out
           /\ Len(last[c].out) >= 2
           /\ Last(last[c].out) = success1(c)
           /\ last[c].out[Len(last[c].out) - 1].desc = scrapeDuration(c)
           /\ \A m \in SetOf(Body(last[c].out)) : ~IsSuccess(m) /\ ~IsDuration(m)
           /\ NoDuplicates(Body(last[c].out))
           /\ writes = 0 => SetOf(Body(last[c].out)) = Assembled(c, store)
           /\ lastScrapeTime[c] = goodAt[c]
           /\ last[c].at <= lastScrapeTime[c] /\ lastScrapeTime[c] <= now

\* a scrape has succeeded after an earlier call left samples in the cache
C16_Witness ==
    \E c \in Collectors :
        /\ Quiet(c)
        /\ last[c].how = "ok"
        /\ last[c].prevHow \in {"ok", "failed"}
        /\ attempts[c] = 2
        /\ Len(last[c].out) > 2

(***************************************************************************)
(* C17  Failure leaves the timestamp unchanged                             *)
(***************************************************************************)
\* caller p ends its scrape in this step with an error or a panic
FailsNow(p) ==
    /\ pc[p] \in Scraping
    /\ \/ pc'[p] = "emit" /\ err'[p] # ""
       \/ pc'[p] = "panicked"

\* C17: lastScrapeTime of a collector changes only in the step that ends a scrape
\* of it in which every sub-collection succeeded, and then to the time of that
\* step; the step in which a scrape fails leaves it unchanged; and a Collect call
\* whose scrape failed leaves it where its TTL check found it, a TTL or more
\* before that check.
C17_FailureKeepsTimestamp ==
    [][/\ \A c \in Collectors :
             lastScrapeTime'[c] # lastScrapeTime[c]
             => /\ lastScrapeTime'[c] = now
                /\ \E p \in Callers :
                      /\ target[p] = c /\ mu[c] = p
                      /\ pc[p] = "end" /\ pc'[p] = "emit"
                      /\ err'[p] = ""
       /\ \A p \in Callers : FailsNow(p) => lastScrapeTime' = lastScrapeTime
       /\ \A c \in Collectors :
             (last'[c] # last[c] /\ last'[c].how = "failed")
             => /\ lastScrapeTime'[c] = lastScrapeTime[c]
                /\ lastScrapeTime'[c] + cacheDuration <= last'[c].at]_vars

\* a scrape has failed after one that succeeded, and the timestamp is the one the
\* successful scrape set
C17_Witness ==
    \E c \in Collectors :
        /\ Quiet(c)
        /\ last[c].how = "failed"
        /\ successes[c] = 1
        /\ lastScrapeTime[c] = goodAt[c]
        /\ lastScrapeTime[c] < last[c].at

(***************************************************************************)
(* C18  Request-driven, no retries                                         *)
(***************************************************************************)
\* C18: the scrape attempts of a collector grow only, and by one, in the step in
\* which a Collect call that holds its lock finds the TTL expired; every call that
\* finds the TTL expired makes that step; and a call that has started its scrape
\* starts no other: after its scrape it only sends and returns.
C18_RequestDriven ==
    [][/\ \A c \in Collectors :
             attempts'[c] # attempts[c]
             => /\ attempts'[c] = attempts[c] + 1
                /\ \E p \in Callers :
                      /\ target[p] = c /\ mu[c] = p
                      /\ Checks(p)
                      /\ now - lastScrapeTime[c] >= cacheDuration
                      /\ pc'[p] = "newclient"
       /\ \A p \in Callers :
             (Checks(p) /\ now - lastScrapeTime[target[p]] >= cacheDuration)
             => attempts'[target[p]] = attempts[target[p]] + 1
       /\ \A p \in Callers :
             /\ pc[p] \in Scraping \cup {"emit"} => attempts'[target[p]] = attempts[target[p]]
             /\ pc[p] = "emit" => pc'[p] \in {"emit", "idle"}
             /\ pc[p] \in Scraping => pc'[p] \in Scraping \cup {"emit", "panicked"}]_vars

\* a call whose scrape failed has returned, and the next call has made the next attempt
C18_Witness ==
    \E c \in Collectors :
        /\ attempts[c] = 2
        /\ last[c].how = "failed"
        /\ \E p \in Callers : target[p] = c /\ pc[p] \in Scraping

(***************************************************************************)
(* C19  Cache-hit frame                                                    *)
(***************************************************************************)
\* C19: the step of a Collect call that finds now - lastScrapeTime < cacheDuration
\* sends exactly the cached sequence as it stands, in its order, and returns; it
\* leaves the cache and the timestamp of every collector as they are, creates no
\* client, opens and closes no connection, and has issued no store call.
C19_CacheHitFrame ==
    [][\A p \in Callers :
          (Checks(p) /\ now - lastScrapeTime[target[p]] < cacheDuration)
          => /\ pc'[p] = "idle"
             /\ last'[target[p]].how = "hit"
             /\ last'[target[p]].out = cachedMetrics[target[p]]
             /\ last'[target[p]].calls = 0
             /\ last'[target[p]].made = 0
             /\ cachedMetrics' = cachedMetrics
             /\ lastScrapeTime' = lastScrapeTime
             /\ client' = client
             /\ conns' = conns
             /\ attempts' = attempts
             /\ store' = store]_vars

\* a call has answered from a cache that a scrape had filled
C19_Witness ==
    \E c \in Collectors :
        /\ Quiet(c)
        /\ last[c].how = "hit"
        /\ last[c].out = cachedMetrics[c]
        /\ Len(last[c].out) > 1
        /\ now - lastScrapeTime[c] < cacheDuration

(***************************************************************************)
(* C20  Sub-collection failure attribution                                 *)
(***************************************************************************)
\* the text s has the word w in it
Contains(s, w) ==
    \E i \in 1..(Len(s) - Len(w) + 1) : SubSeq(s, i, i + Len(w) - 1) = w

HwSubs == {"psu", "fan", "chassis"}

\* C20: the hw scrape runs PSU, then fan, then chassis; a sub-collection that fails
\* ends the scrape in that step, so that no later one runs, and the error that
\* scrapeMetrics returns names the sub-collection that failed and no other one.
C20_FailureAttribution ==
    [][\A p \in Callers :
          /\ pc[p] = "psu" => pc'[p] \in {"psu", "fan", "emit", "panicked"}
          /\ pc[p] = "fan" => pc'[p] \in {"fan", "chassis", "emit"}
          /\ pc[p] = "chassis" => pc'[p] \in {"chassis", "end", "emit"}
          /\ (pc[p] \in HwSubs /\ pc'[p] = "emit")
             => /\ err'[p] # ""
                /\ Contains(err'[p], pc[p])
                /\ \A w \in HwSubs \ {pc[p]} : ~Contains(err'[p], w)]_vars

(***************************************************************************)
(* C21  No indefinite blocking                                             *)
(***************************************************************************)
\* C21: under fair scheduling, where every store call returns, every Collect call
\* that has been entered returns, and every caller that waits for the lock of its
\* collector is granted it.
C21_NoIndefiniteBlocking ==
    \A p \in Callers :
        /\ (pc[p] # "idle") ~> (pc[p] = "idle")
        /\ (pc[p] = "lock") ~> (pc[p] = "check")

(***************************************************************************)
(* C22  Cache hits only serve successful results                           *)
(***************************************************************************)
\* the sequence cm carries the sample success=0 of collector c
CarriesFailure(cm, c) == \E i \in 1..Len(cm) : cm[i] = success0(c)

\* C22: a Collect call that takes the cache-hit branch returns what the most recent
\* successful scrape of its collector assembled, followed by success=1 and by
\* nothing else, and that scrape is the one the timestamp is of; a sequence that
\* carries success=0 has been returned by a call whose own scrape failed.
C22_HitsServeSuccess ==
    [][\A p \in Callers :
          /\ (Checks(p) /\ pc'[p] = "idle")
             => /\ last'[target[p]].how = "hit"
                /\ successes[target[p]] > 0
                /\ lastScrapeTime[target[p]] = goodAt[target[p]]
                /\ last'[target[p]].out = Append(lastGood[target[p]], success1(target[p]))
                /\ ~CarriesFailure(last'[target[p]].out, target[p])
          /\ (last'[target[p]] # last[target[p]]
                 /\ CarriesFailure(last'[target[p]].out, target[p]))
             => /\ last'[target[p]].how = "failed"
                /\ last'[target[p]].made = 1]_vars

\* a call has answered from the cache after a successful scrape, and a later call,
\* past the TTL, has failed and returned success=0
C22_Witness ==
    \E c \in Collectors :
        /\ Quiet(c)
        /\ last[c].how = "failed"
        /\ last[c].prevHow = "hit"
        /\ CarriesFailure(last[c].out, c)

(***************************************************************************)
(* C23  Store client database handling                                     *)
(***************************************************************************)
KnownDbs == {"APPL_DB", "COUNTERS_DB", "CONFIG_DB", "STATE_DB"}

DbIndex == [n \in KnownDbs |-> CASE n = "APPL_DB" -> 0
                                  [] n = "COUNTERS_DB" -> 2
                                  [] n = "CONFIG_DB" -> 4
                                  [] n = "STATE_DB" -> 6]

IsRead(r) == r.op.call \in {"KeysFromDb", "HgetAllFromDb"}

\* C23: a KeysFromDb or HgetAllFromDb on a name outside the four known ones returns
\* "database not defined" and leaves the connection map as it was; on a known name
\* it does not return that error, leaves the map as it was if the name had a
\* connection and adds one connection, for that name and to its fixed index,
\* if it had none, and reads the database of that index; the map holds connections
\* for known names only, each to the index of its name; Close leaves it empty.
C23_ClientDatabases ==
    /\ \A n \in DOMAIN client[1].databases :
          n \in KnownDbs /\ client[1].databases[n].db = DbIndex[n]
    /\ conns[1] = DOMAIN client[1].databases
    /\ ret.done =>
          LET r == ret.res
              before == r.before.databases
              after  == r.after.databases
          IN  /\ r.after = client[1]
              /\ (IsRead(r) /\ r.name \notin KnownDbs)
                 => /\ r.err = "database not defined"
                    /\ after = before
                    /\ r.keys = <<>> /\ r.data = NoHash
              /\ (IsRead(r) /\ r.name \in KnownDbs)
                 => /\ r.err # "database not defined"
                    /\ DOMAIN after = DOMAIN before \cup {r.name}
                    /\ \A n \in DOMAIN before : after[n] = before[n]
                    /\ after[r.name].db = DbIndex[r.name]
                    /\ (r.err = "") = ~r.fault
                    /\ (r.op.call = "KeysFromDb" /\ ~r.fault)
                       => r.keys = KeysOf(WholeStore(store)[DbIndex[r.name]], r.op.arg)
                    /\ (r.op.call = "HgetAllFromDb" /\ ~r.fault)
                       => r.data = HGetAll(WholeStore(store)[DbIndex[r.name]], r.op.arg)
              /\ r.op.call = "Close"
                 => /\ DOMAIN after = {}
                    /\ r.closed = DOMAIN before

\* a name is used a second time, on a client that holds two connections
C23_Witness ==
    /\ ret.done
    /\ IsRead(ret.res)
    /\ ret.res.name = "STATE_DB"
    /\ ret.res.name \in DOMAIN ret.res.before.databases
    /\ ret.res.after = ret.res.before
    /\ ret.res.err = ""
    /\ ret.res.keys # <<>>
    /\ Cardinality(DOMAIN client[1].databases) = 2

=============================================================================
